---- MODULE Spec2Model ----
(***************************************************************************)
(* A model of YAMCSMDBGen (src/yamcs_mdb_gen.py): the type translator, the *)
(* type and calibration registries, the TM/TC entry model, validate() and   *)
(* generateCSVs().                                                         *)
(*                                                                         *)
(* Python strings are sequences of one-character strings, so that slicing, *)
(* searching, replacing, parsing and formatting are computed as the code   *)
(* computes them.  None is the empty tuple in an optional field and a      *)
(* present value v is <<v>>.  Lists and insertion-ordered dicts are        *)
(* sequences (a dict is a sequence of <<key, value>> pairs with distinct   *)
(* keys).                                                                  *)
(***************************************************************************)
EXTENDS Integers, Sequences, FiniteSets, TLC

VARIABLES
    TMpackets,      \* self.TMpackets: list of TMPacket objects
    commands,       \* self.commands: list of Command objects
    dataTypes,      \* self.dataTypes: list of DataType objects
    calibrations,   \* self.calibrations: list of Calib objects
    files,          \* the files written in self.directory: <<file name, text>> pairs
    lastCall,       \* the last call made on the generator, with its arguments
    raised          \* the exception that call raised, or NoError

vars == <<TMpackets, commands, dataTypes, calibrations, files, lastCall, raised>>

model == <<TMpackets, commands, dataTypes, calibrations>>

(***************************************************************************)
(* Bounds of the model.                                                    *)
(***************************************************************************)
\* user-added data types + entries + parameters held by the generator
MaxModelSize == 3
\* user-added data types in the type-registry specification
MaxTypeCalls == 1
\* digits of a string<n> token
MaxDigits == 2

(***************************************************************************)
(* String primitives.                                                      *)
(***************************************************************************)
Digits == <<"0", "1", "2", "3", "4", "5", "6", "7", "8", "9">>

IsDigit(c) == \E i \in 1..10 : Digits[i] = c

DigitVal(c) == (CHOOSE i \in 1..10 : Digits[i] = c) - 1

\* int(s) for a string of decimal digits
RECURSIVE ParseInt(_)
ParseInt(s) ==
    IF Len(s) = 0 THEN 0
    ELSE 10 * ParseInt(SubSeq(s, 1, Len(s) - 1)) + DigitVal(s[Len(s)])

\* str(n) for n >= 0
RECURSIVE IntToStr(_)
IntToStr(n) ==
    IF n < 10 THEN <<Digits[n + 1]>>
    ELSE Append(IntToStr(n \div 10), Digits[(n % 10) + 1])

\* s.find(c): the first position of character c, 0 when absent (Python: -1)
Find(s, c) ==
    IF \E i \in 1..Len(s) : s[i] = c
    THEN CHOOSE i \in 1..Len(s) : s[i] = c /\ \A j \in 1..(i - 1) : s[j] # c
    ELSE 0

\* s.rfind(c): the last position of character c, 0 when absent (Python: -1)
RFind(s, c) ==
    IF \E i \in 1..Len(s) : s[i] = c
    THEN CHOOSE i \in 1..Len(s) : s[i] = c /\ \A j \in (i + 1)..Len(s) : s[j] # c
    ELSE 0

\* sub in s
Contains(s, sub) ==
    \E i \in 1..(Len(s) - Len(sub) + 1) : SubSeq(s, i, i + Len(sub) - 1) = sub

StartsWith(s, pre) == Len(s) >= Len(pre) /\ SubSeq(s, 1, Len(pre)) = pre

\* s.split(c)[0]
SplitFirst(s, c) == IF Find(s, c) = 0 THEN s ELSE SubSeq(s, 1, Find(s, c) - 1)

\* s.replace(old, new) for a one-character old
RECURSIVE StrReplace(_, _, _)
StrReplace(s, old, new) ==
    IF \A i \in 1..Len(s) : s[i] # old THEN s
    ELSE (IF s[1] = old THEN new ELSE <<s[1]>>) \o StrReplace(Tail(s), old, new)

\* sep.join(parts)
RECURSIVE Join(_, _)
Join(sep, parts) ==
    IF Len(parts) = 0 THEN <<>>
    ELSE IF Len(parts) = 1 THEN parts[1]
    ELSE parts[1] \o sep \o Join(sep, Tail(parts))

(***************************************************************************)
(* Class attributes.                                                       *)
(***************************************************************************)
s_uint == <<"u", "i", "n", "t">>
s_int == <<"i", "n", "t">>
s_float == <<"f", "l", "o", "a", "t">>
s_string == <<"s", "t", "r", "i", "n", "g">>
s_enumerated == <<"e", "n", "u", "m", "e", "r", "a", "t", "e", "d">>
s_enumeration == <<"e", "n", "u", "m", "e", "r", "a", "t", "i", "o", "n">>
s_bool == <<"b", "o", "o", "l">>
s_U8 == <<"U", "8">>
s_U16 == <<"U", "1", "6">>
s_U32 == <<"U", "3", "2">>
s_U64 == <<"U", "6", "4">>
s_I8 == <<"I", "8">>
s_I16 == <<"I", "1", "6">>
s_I32 == <<"I", "3", "2">>
s_I64 == <<"I", "6", "4">>
s_F32 == <<"F", "3", "2">>
s_F64 == <<"F", "6", "4">>
\* the key r"string(\d+)"
s_stringPattern == s_string \o <<"(", "\\", "d", "+", ")">>
\* the field "8*{}"
s_mulTemplate == <<"8", "*", "{", "}">>

\* TYPES_MAP, in insertion order
TYPES_MAP ==
    << [key |-> s_bool, info |-> <<s_uint, s_uint, <<"8">>>>],
       [key |-> s_U8, info |-> <<s_uint, s_uint, <<"8">>>>],
       [key |-> s_U16, info |-> <<s_uint, s_uint, <<"1", "6">>>>],
       [key |-> s_U32, info |-> <<s_uint, s_uint, <<"3", "2">>>>],
       [key |-> s_U64, info |-> <<s_uint, s_uint, <<"6", "4">>>>],
       [key |-> s_I8, info |-> <<s_int, s_int, <<"8">>>>],
       [key |-> s_I16, info |-> <<s_int, s_int, <<"1", "6">>>>],
       [key |-> s_I32, info |-> <<s_int, s_int, <<"3", "2">>>>],
       [key |-> s_I64, info |-> <<s_int, s_int, <<"6", "4">>>>],
       [key |-> s_F32, info |-> <<s_float, s_float, <<"3", "2">>>>],
       [key |-> s_F64, info |-> <<s_float, s_float, <<"6", "4">>>>],
       [key |-> s_stringPattern, info |-> <<s_string, s_string, s_mulTemplate>>] >>

\* a replacement table that also doubles the underscores it writes
NAME_REPLACE_MAP_Doubling ==
    << [old |-> ".", new |-> <<"_">>], [old |-> "_", new |-> <<"_", "_">>] >>

\* NAME_REPLACE_MAP, in insertion order
NAME_REPLACE_MAP == << [old |-> ".", new |-> <<"_">>] >>

(***************************************************************************)
(* Exceptions.                                                             *)
(***************************************************************************)
NoError == [kind |-> "none", category |-> "", detail |-> <<>>]

UnknownNativeTypeError ==
    [kind |-> "UnknownNativeTypeError", category |-> "Native type is not supported",
     detail |-> <<>>]

UndeclaredTypeError(category, detail) ==
    [kind |-> "UndeclaredTypeError", category |-> category, detail |-> detail]

NameConflictError(category, detail) ==
    [kind |-> "NameConflictError", category |-> category, detail |-> detail]

(***************************************************************************)
(* _translate_type.                                                        *)
(***************************************************************************)
\* the token without the one trailing newline that "$" lets a match end before
BeforeFinalNewline(t) ==
    IF Len(t) > 0 /\ t[Len(t)] = "\n" THEN SubSeq(t, 1, Len(t) - 1) ELSE t

\* a key made of ordinary characters only
IsLiteralPattern(pattern) ==
    \A i \in 1..Len(pattern) : pattern[i] \notin {"(", ")", "\\", "+", "*", "{", "}"}

\* re.match(f"^{pattern}$", t) for the two shapes of key in TYPES_MAP, a literal
\* word and word(\d+): [matched, groups]
RegexMatch(pattern, t) ==
    LET body == BeforeFinalNewline(t)
        word == SplitFirst(pattern, "(")
        arg == SubSeq(body, Len(word) + 1, Len(body))
    IN  IF IsLiteralPattern(pattern)
        THEN [matched |-> (t = pattern \/ t = pattern \o <<"\n">>), groups |-> <<>>]
        ELSE IF /\ pattern = word \o <<"(", "\\", "d", "+", ")">>
                /\ StartsWith(body, word)
                /\ Len(arg) >= 1
                /\ \A i \in 1..Len(arg) : IsDigit(arg[i])
        THEN [matched |-> TRUE, groups |-> <<arg>>]
        ELSE [matched |-> FALSE, groups |-> <<>>]

\* re.match(r'^\d+\*\{\}$', field)
IsMulTemplate(field) ==
    LET body == BeforeFinalNewline(field)
        star == Find(body, "*")
    IN  /\ star > 1
        /\ \A i \in 1..(star - 1) : IsDigit(body[i])
        /\ SubSeq(body, star, Len(body)) = <<"*", "{", "}">>

\* field.format(*groups): each "{}" replaced by the next group
RECURSIVE StrFormat(_, _)
StrFormat(field, groups) ==
    IF Len(field) = 0 THEN <<>>
    ELSE IF Len(field) >= 2 /\ field[1] = "{" /\ field[2] = "}" /\ Len(groups) > 0
    THEN groups[1] \o StrFormat(SubSeq(field, 3, Len(field)), Tail(groups))
    ELSE <<field[1]>> \o StrFormat(Tail(field), groups)

\* a translation that formats every field and computes none
TranslateField_Verbatim(field, groups) == StrFormat(field, groups)

\* one field of the translation of a pattern match with groups
TranslateField(field, groups) ==
    IF IsMulTemplate(field)
    THEN IntToStr(ParseInt(SplitFirst(field, "*")) * ParseInt(groups[1]))
    ELSE StrFormat(field, groups)

ExactKeys == {TYPES_MAP[i].key : i \in 1..Len(TYPES_MAP)}

ExactInfo(t) == TYPES_MAP[CHOOSE i \in 1..Len(TYPES_MAP) : TYPES_MAP[i].key = t].info

\* the first key of TYPES_MAP, in insertion order, that matches t as a regex
MatchingRules(t) == {i \in 1..Len(TYPES_MAP) : RegexMatch(TYPES_MAP[i].key, t).matched}

FirstMatchingRule(t) ==
    CHOOSE i \in MatchingRules(t) : \A j \in MatchingRules(t) : i <= j

\* _translate_type(t): [ok, info]; ok = FALSE stands for raising UnknownNativeTypeError
translate_type(t) ==
    IF t \in ExactKeys THEN [ok |-> TRUE, info |-> ExactInfo(t)]
    ELSE IF MatchingRules(t) # {}
    THEN LET rule == TYPES_MAP[FirstMatchingRule(t)]
             groups == RegexMatch(rule.key, t).groups
         IN  IF Len(groups) > 0
             THEN [ok |-> TRUE,
                   info |-> [k \in 1..3 |-> TranslateField(rule.info[k], groups)]]
             ELSE [ok |-> TRUE, info |-> rule.info]
    ELSE [ok |-> FALSE, info |-> <<>>]

(***************************************************************************)
(* Data model classes.                                                     *)
(***************************************************************************)
None == <<>>

Some(v) == <<v>>

\* DataType.__init__
DataType(cls, typeName, engType, rawType, encoding, calibration) ==
    [cls |-> cls, name |-> typeName, engType |-> engType, rawType |-> rawType,
     encoding |-> encoding, calibration |-> calibration]

\* PrimitiveDataType.__init__, for a token the translator resolves
PrimitiveDataType(typeStr) ==
    LET typeTranslation == translate_type(typeStr).info
    IN  DataType("PrimitiveDataType", typeStr, typeTranslation[1], typeTranslation[2],
                 typeTranslation[3], None)

\* an EnumDataType whose calibration reference is its representation type
EnumDataType_RefRepType(typeName, typeStr) ==
    LET typeTranslation == translate_type(typeStr).info
    IN  DataType("EnumDataType", typeName, s_enumerated, typeTranslation[2],
                 typeTranslation[3], Some(typeStr))

\* EnumDataType.__init__, for a representation type the translator resolves
EnumDataType(typeName, typeStr) ==
    LET typeTranslation == translate_type(typeStr).info
    IN  DataType("EnumDataType", typeName, s_enumerated, typeTranslation[2],
                 typeTranslation[3], Some(typeName))

\* ArrayDataType.__init__
ArrayDataType(typeName, typeStr) ==
    [cls |-> "ArrayDataType", name |-> typeName, engType |-> typeStr \o <<"[", "]">>,
     rawType |-> <<>>, encoding |-> <<>>, calibration |-> None, elType |-> typeStr]

\* the engineering type text of an aggregate: '{' + ' '.join(f'{t} {n};') + '}'
AggregateEngType(members) ==
    <<"{">>
    \o Join(<<" ">>, [i \in 1..Len(members) |->
                        members[i][2] \o <<" ">> \o members[i][1] \o <<";">>])
    \o <<"}">>

\* AggregateDataType.__init__; members is the dict {member name: type string}
AggregateDataType(typeName, members) ==
    [cls |-> "AggregateDataType", name |-> typeName,
     engType |-> AggregateEngType(members),
     rawType |-> <<>>, encoding |-> <<>>, calibration |-> None, members |-> members]

\* Parameter.__init__
Parameter(name, typeName, default, min, max) ==
    [name |-> name, typeName |-> typeName, default |-> default, min |-> min, max |-> max]

\* ArrayParameter.__init__
ArrayParameter(name, typeName, length) ==
    Parameter(name \o <<"[">> \o IntToStr(length) \o <<"]">>, typeName, None, None, None)

\* Calib.__init__
Calib(typeName, kind, calibs1, calibs2) ==
    [calibs1 |-> calibs1, calibs2 |-> calibs2, name |-> typeName, kind |-> kind]

\* an enumeration calibration whose implicit raw values start at 1
EnumCalib_FromOne(typeName, values) ==
    Calib(typeName, s_enumeration,
          IF values.isMap
              THEN [i \in 1..Len(values.items) |-> values.items[i][2]]
              ELSE [i \in 1..Len(values.items) |-> i],
          IF values.isMap
              THEN [i \in 1..Len(values.items) |-> values.items[i][1]]
              ELSE values.items)

\* EnumCalib.__init__; values is [isMap, items]: a list of labels (items) or a
\* dict label -> raw value (items: its <<label, raw>> pairs in insertion order)
EnumCalib(typeName, values) ==
    Calib(typeName, s_enumeration,
          IF values.isMap
              THEN [i \in 1..Len(values.items) |-> values.items[i][2]]
              ELSE [i \in 1..Len(values.items) |-> i - 1],
          IF values.isMap
              THEN [i \in 1..Len(values.items) |-> values.items[i][1]]
              ELSE values.items)

\* TMPacket.__init__ (with TMTCEntry.__init__)
TMPacket(name, id, frequency) ==
    [cls |-> "TMPacket", params |-> <<>>, name |-> name, id |-> id, freq |-> frequency]

\* Command.__init__ (with TMTCEntry.__init__)
Command(name, opcode) ==
    [cls |-> "Command", params |-> <<>>, name |-> name, opcode |-> opcode]

\* TMTCEntry.__init__: the abstract class, neither a packet nor a command
TMTCEntry(name) == [cls |-> "TMTCEntry", params |-> <<>>, name |-> name]

(***************************************************************************)
(* reset() and the state after construction.                               *)
(***************************************************************************)
\* the keys reset() registers: those of TYPES_MAP without 'string' in them
RECURSIVE ResetTypes(_)
ResetTypes(n) ==
    IF n = 0 THEN <<>>
    ELSE IF Contains(TYPES_MAP[n].key, s_string) THEN ResetTypes(n - 1)
    ELSE Append(ResetTypes(n - 1), PrimitiveDataType(TYPES_MAP[n].key))

ResetDataTypes == ResetTypes(Len(TYPES_MAP))

Call(op, args) == [op |-> op, args |-> args]

Init ==
    /\ TMpackets = <<>>
    /\ commands = <<>>
    /\ dataTypes = ResetDataTypes
    /\ calibrations = <<>>
    /\ files = <<>>
    /\ lastCall = Call("__init__", <<>>)
    /\ raised = NoError

\* a reset() that keeps the calibrations
reset_KeepCalibrations ==
    /\ TMpackets' = <<>>
    /\ commands' = <<>>
    /\ dataTypes' = ResetDataTypes
    /\ lastCall' = Call("reset", <<>>)
    /\ UNCHANGED files
    /\ raised' = NoError
    /\ UNCHANGED calibrations

reset ==
    /\ TMpackets' = <<>>
    /\ commands' = <<>>
    /\ dataTypes' = ResetDataTypes
    /\ calibrations' = <<>>
    /\ lastCall' = Call("reset", <<>>)
    /\ UNCHANGED files
    /\ raised' = NoError

(***************************************************************************)
(* The builder calls.                                                      *)
(***************************************************************************)
\* the parameters held by the entries of a list
RECURSIVE CountParams(_)
CountParams(entries) ==
    IF Len(entries) = 0 THEN 0
    ELSE Len(entries[1].params) + CountParams(Tail(entries))

\* what the callers have added since construction or reset
ModelSize ==
    (Len(dataTypes) - Len(ResetDataTypes)) + Len(TMpackets) + Len(commands)
    + CountParams(TMpackets) + CountParams(commands)

addPrimitiveType(paramType) ==
    /\ lastCall' = Call("addPrimitiveType", <<paramType>>)
    /\ UNCHANGED files
    /\ \/ /\ translate_type(paramType).ok
          /\ dataTypes' = Append(dataTypes, PrimitiveDataType(paramType))
          /\ raised' = NoError
          /\ UNCHANGED <<TMpackets, commands, calibrations>>
       \/ /\ ~translate_type(paramType).ok
          /\ raised' = UnknownNativeTypeError
          /\ UNCHANGED <<TMpackets, commands, dataTypes, calibrations>>

\* an addEnumType that registers the calibration before it builds the data type
addEnumType_CalibFirst(enumName, enumType, values) ==
    /\ lastCall' = Call("addEnumType", <<enumName, enumType, values>>)
    /\ UNCHANGED files
    /\ calibrations' = Append(calibrations, EnumCalib(enumName, values))
    /\ \/ /\ translate_type(enumType).ok
          /\ dataTypes' = Append(dataTypes, EnumDataType(enumName, enumType))
          /\ raised' = NoError
          /\ UNCHANGED <<TMpackets, commands>>
       \/ /\ ~translate_type(enumType).ok
          /\ raised' = UnknownNativeTypeError
          /\ UNCHANGED <<TMpackets, commands, dataTypes>>

addEnumType(enumName, enumType, values) ==
    /\ lastCall' = Call("addEnumType", <<enumName, enumType, values>>)
    /\ UNCHANGED files
    /\ \/ /\ translate_type(enumType).ok
          /\ dataTypes' = Append(dataTypes, EnumDataType(enumName, enumType))
          /\ calibrations' = Append(calibrations, EnumCalib(enumName, values))
          /\ raised' = NoError
          /\ UNCHANGED <<TMpackets, commands>>
       \/ /\ ~translate_type(enumType).ok
          /\ raised' = UnknownNativeTypeError
          /\ UNCHANGED <<TMpackets, commands, dataTypes, calibrations>>

addArrayType(arrayName, membersType) ==
    /\ lastCall' = Call("addArrayType", <<arrayName, membersType>>)
    /\ UNCHANGED files
    /\ dataTypes' = Append(dataTypes, ArrayDataType(arrayName, membersType))
    /\ raised' = NoError
    /\ UNCHANGED <<TMpackets, commands, calibrations>>

addAggregateType(aggName, members) ==
    /\ lastCall' = Call("addAggregateType", <<aggName, members>>)
    /\ UNCHANGED files
    /\ dataTypes' = Append(dataTypes, AggregateDataType(aggName, members))
    /\ raised' = NoError
    /\ UNCHANGED <<TMpackets, commands, calibrations>>

addTMTC(tmtc) ==
    /\ lastCall' = Call("addTMTC", <<tmtc>>)
    /\ UNCHANGED files
    /\ \/ /\ tmtc.cls = "Command"
          /\ commands' = Append(commands, tmtc)
          /\ raised' = NoError
          /\ UNCHANGED <<TMpackets, dataTypes, calibrations>>
       \/ /\ tmtc.cls = "TMPacket"
          /\ TMpackets' = Append(TMpackets, tmtc)
          /\ raised' = NoError
          /\ UNCHANGED <<commands, dataTypes, calibrations>>
       \/ /\ tmtc.cls \notin {"Command", "TMPacket"}
          /\ raised' = [kind |-> "Exception",
                        category |-> "Expecting TM packet or command", detail |-> <<>>]
          /\ UNCHANGED <<TMpackets, commands, dataTypes, calibrations>>

\* TMTCEntry.addParam on the i-th packet held by the generator (an entry is held
\* by reference: the caller's object and the list's element are one object)
packetAddParam(i, paramName, paramType, default, min, max) ==
    /\ i \in 1..Len(TMpackets)
    /\ TMpackets' = [TMpackets EXCEPT ![i].params =
                        Append(@, Parameter(paramName, paramType, default, min, max))]
    /\ lastCall' = Call("addParam", <<"TMPacket", i, paramName, paramType>>)
    /\ UNCHANGED files
    /\ raised' = NoError
    /\ UNCHANGED <<commands, dataTypes, calibrations>>

\* TMTCEntry.addArray on the i-th packet held by the generator
packetAddArray(i, paramName, arrayName, arrayLength) ==
    /\ i \in 1..Len(TMpackets)
    /\ TMpackets' = [TMpackets EXCEPT ![i].params =
                        Append(@, ArrayParameter(paramName, arrayName, arrayLength))]
    /\ lastCall' = Call("addArray", <<"TMPacket", i, paramName, arrayName, arrayLength>>)
    /\ UNCHANGED files
    /\ raised' = NoError
    /\ UNCHANGED <<commands, dataTypes, calibrations>>

\* TMTCEntry.addParam on the i-th command held by the generator
commandAddParam(i, paramName, paramType, default, min, max) ==
    /\ i \in 1..Len(commands)
    /\ commands' = [commands EXCEPT ![i].params =
                        Append(@, Parameter(paramName, paramType, default, min, max))]
    /\ lastCall' = Call("addParam", <<"Command", i, paramName, paramType>>)
    /\ UNCHANGED files
    /\ raised' = NoError
    /\ UNCHANGED <<TMpackets, dataTypes, calibrations>>

(***************************************************************************)
(* validate().                                                             *)
(***************************************************************************)
Min(S) == CHOOSE i \in S : \A j \in S : i <= j

\* an _isTypeDeclared that keeps the array notation
isTypeDeclared_WholeName(dts, typeName) ==
    \E i \in 1..Len(dts) : dts[i].name = typeName

\* _isTypeDeclared against the data types dts
isTypeDeclared(dts, typeName) ==
    LET potentialBracketPos == RFind(typeName, "[")
        baseName == IF potentialBracketPos # 0
                    THEN SubSeq(typeName, 1, potentialBracketPos - 1)
                    ELSE typeName
    IN  \E i \in 1..Len(dts) : dts[i].name = baseName

\* the positions of the parameters of an entry whose type is not declared
UndeclaredParams(dts, tmtc) ==
    {j \in 1..Len(tmtc.params) : ~isTypeDeclared(dts, tmtc.params[j].typeName)}

\* "Check for type declarations": the first raise of the loop over
\* self.TMpackets + self.commands, or NoError
CheckParamTypes(tm, cmd, dts) ==
    LET entries == tm \o cmd
        bad == {i \in 1..Len(entries) : UndeclaredParams(dts, entries[i]) # {}}
    IN  IF bad = {} THEN NoError
        ELSE LET tmtc == entries[Min(bad)]
                 param == tmtc.params[Min(UndeclaredParams(dts, tmtc))]
             IN  UndeclaredTypeError("TMTC object parameter",
                                     <<tmtc.name, param.name, param.typeName>>)

\* the positions of the members of an aggregate whose type is not declared
UndeclaredMembers(dts, dt) ==
    {j \in 1..Len(dt.members) : ~isTypeDeclared(dts, dt.members[j][2])}

\* whether the loop over self.dataTypes raises at dt
HasUndeclaredReference(dts, dt) ==
    IF dt.cls = "ArrayDataType" THEN ~isTypeDeclared(dts, dt.elType)
    ELSE IF dt.cls = "AggregateDataType" THEN UndeclaredMembers(dts, dt) # {}
    ELSE FALSE

\* "Check referenced types in qualified names": the first raise of the loop, or NoError
CheckTypeReferences(dts) ==
    LET bad == {i \in 1..Len(dts) : HasUndeclaredReference(dts, dts[i])}
    IN  IF bad = {} THEN NoError
        ELSE LET dt == dts[Min(bad)]
             IN  IF dt.cls = "ArrayDataType"
                 THEN UndeclaredTypeError("Array member type", <<dt.elType, dt.name>>)
                 ELSE LET member == dt.members[Min(UndeclaredMembers(dts, dt))]
                      IN  UndeclaredTypeError("Member type",
                                              <<member[2], member[1], dt.name>>)

\* a check_conflicts that compares whole items, not their names
ConflictPositions_ByContent(items) ==
    {i \in 1..Len(items) : \E j \in 1..(i - 1) : items[j] = items[i]}

\* the positions at which check_conflicts finds the name already in its set
ConflictPositions(items) ==
    {i \in 1..Len(items) : \E j \in 1..(i - 1) : items[j].name = items[i].name}

\* check_conflicts(items, category_name): its raise, or NoError
check_conflicts(items, category_name, scope) ==
    IF ConflictPositions(items) = {} THEN NoError
    ELSE NameConflictError(category_name,
                           scope \o <<items[Min(ConflictPositions(items))].name>>)

\* the loop of check_conflicts over the parameters of each entry of a list
CheckParamConflicts(entries, category_name) ==
    LET bad == {i \in 1..Len(entries) : ConflictPositions(entries[i].params) # {}}
    IN  IF bad = {} THEN NoError
        ELSE check_conflicts(entries[Min(bad)].params, category_name,
                             <<entries[Min(bad)].name>>)

\* the first of the errors of a sequence of checks, in order, or NoError
RECURSIVE FirstError(_)
FirstError(checks) ==
    IF Len(checks) = 0 THEN NoError
    ELSE IF checks[1] # NoError THEN checks[1]
    ELSE FirstError(Tail(checks))

\* a validate() that looks for name conflicts before type references
ValidateChecks_ConflictsFirst(tm, cmd, dts, cal) ==
    << check_conflicts(dts, "datatypes", <<>>),
       check_conflicts(tm, "TM packets", <<>>),
       check_conflicts(cmd, "commands", <<>>),
       check_conflicts(cal, "calibrations", <<>>),
       CheckParamConflicts(tm, "parameters of TM packet"),
       CheckParamConflicts(cmd, "parameters of command"),
       CheckParamTypes(tm, cmd, dts),
       CheckTypeReferences(dts) >>

\* the checks of validate() in the order the code runs them
ValidateChecks(tm, cmd, dts, cal) ==
    << CheckParamTypes(tm, cmd, dts),
       CheckTypeReferences(dts),
       check_conflicts(dts, "datatypes", <<>>),
       check_conflicts(tm, "TM packets", <<>>),
       check_conflicts(cmd, "commands", <<>>),
       check_conflicts(cal, "calibrations", <<>>),
       CheckParamConflicts(tm, "parameters of TM packet"),
       CheckParamConflicts(cmd, "parameters of command") >>

\* what validate() raises on a model, or NoError
ValidateError(tm, cmd, dts, cal) == FirstError(ValidateChecks(tm, cmd, dts, cal))

\* _replace_invalid_chars_in_object on a str
RECURSIVE ApplyReplaceMap(_, _)
ApplyReplaceMap(obj, n) ==
    IF n = 0 THEN obj
    ELSE StrReplace(ApplyReplaceMap(obj, n - 1),
                    NAME_REPLACE_MAP[n].old, NAME_REPLACE_MAP[n].new)

ReplaceInStr(obj) == ApplyReplaceMap(obj, Len(NAME_REPLACE_MAP))

\* _replace_invalid_chars_in_object on an attribute that is None or a str
ReplaceInOptStr(obj) == IF obj = None THEN None ELSE Some(ReplaceInStr(obj[1]))

\* _replace_invalid_chars_in_object on a list of str
ReplaceInStrList(obj) == [i \in 1..Len(obj) |-> ReplaceInStr(obj[i])]

\* _replace_invalid_chars_in_object on a Parameter: name and typeName are str,
\* default, min and max are None or a value given as text
ReplaceInParameter(obj) ==
    [name |-> ReplaceInStr(obj.name), typeName |-> ReplaceInStr(obj.typeName),
     default |-> ReplaceInOptStr(obj.default), min |-> ReplaceInOptStr(obj.min),
     max |-> ReplaceInOptStr(obj.max)]

\* _replace_invalid_chars_in_object on a TMPacket or a Command: params is a list,
\* name and opcode are str, id and freq are int or None and are returned as they are
ReplaceInEntry(obj) ==
    LET params == [i \in 1..Len(obj.params) |-> ReplaceInParameter(obj.params[i])]
    IN  IF obj.cls = "Command"
        THEN [obj EXCEPT !.params = params, !.name = ReplaceInStr(@),
                         !.opcode = ReplaceInStr(@)]
        ELSE [obj EXCEPT !.params = params, !.name = ReplaceInStr(@)]

\* _replace_invalid_chars_in_object on a dict: not a str, not a list and without
\* __dict__, so it is returned as it is
ReplaceInDict(obj) == obj

\* _replace_invalid_chars_in_object on a DataType
ReplaceInDataType(obj) ==
    LET base == [obj EXCEPT !.name = ReplaceInStr(@), !.engType = ReplaceInStr(@),
                            !.rawType = ReplaceInStr(@), !.encoding = ReplaceInStr(@),
                            !.calibration = ReplaceInOptStr(@)]
    IN  IF obj.cls = "ArrayDataType" THEN [base EXCEPT !.elType = ReplaceInStr(@)]
        ELSE IF obj.cls = "AggregateDataType"
        THEN [base EXCEPT !.members = ReplaceInDict(@)]
        ELSE base

\* _replace_invalid_chars_in_object on a Calib: calibs1 is a list of int, each
\* returned as it is; calibs2 is a list of str
ReplaceInCalib(obj) ==
    [obj EXCEPT !.calibs2 = ReplaceInStrList(@), !.name = ReplaceInStr(@),
                !.kind = ReplaceInStr(@)]

\* the four assignments that end validate()
Sanitized(tm, cmd, dts, cal) ==
    << [i \in 1..Len(tm) |-> ReplaceInEntry(tm[i])],
       [i \in 1..Len(cmd) |-> ReplaceInEntry(cmd[i])],
       [i \in 1..Len(dts) |-> ReplaceInDataType(dts[i])],
       [i \in 1..Len(cal) |-> ReplaceInCalib(cal[i])] >>

validate ==
    /\ lastCall' = Call("validate", <<>>)
    /\ UNCHANGED files
    /\ raised' = ValidateError(TMpackets, commands, dataTypes, calibrations)
    /\ \/ /\ raised' # NoError
          /\ UNCHANGED <<TMpackets, commands, dataTypes, calibrations>>
       \/ /\ raised' = NoError
          /\ LET clean == Sanitized(TMpackets, commands, dataTypes, calibrations)
             IN  /\ TMpackets' = clean[1]
                 /\ commands' = clean[2]
                 /\ dataTypes' = clean[3]
                 /\ calibrations' = clean[4]

(***************************************************************************)
(* generateCSVs().                                                         *)
(***************************************************************************)
\* the arguments the generator is constructed with: name, version, directory
gen_name == <<"t", "e", "s", "t", "M", "D", "B">>
gen_version == <<"1", ".", "0">>
gen_directory == <<".">>

PACKETTYPE_TYPE == s_U32
PACKETID_TYPE == s_U32
OPCODE_TYPE == s_U32
PACKETTYPE_TLM == 1

\* a template of str.format: literal texts and named replacement fields
Lit(text) == [arg |-> "", lit |-> text]

Arg(name) == [arg |-> name, lit |-> <<>>]

\* template.format(**kwargs); kwargs holds the text of each value
RECURSIVE Format(_, _)
Format(template, kwargs) ==
    IF Len(template) = 0 THEN <<>>
    ELSE (IF template[1].arg = "" THEN template[1].lit ELSE kwargs[template[1].arg])
         \o Format(Tail(template), kwargs)

\* the text of a value that is None (rendered as "") or a str
OptText(opt) == IF opt = None THEN <<>> ELSE opt[1]

\* the text of a value that is None (rendered as "") or an int
OptIntText(opt) == IF opt = None THEN <<>> ELSE IntToStr(opt[1])

\* the lists of a list, one after the other
RECURSIVE Flatten(_)
Flatten(lists) ==
    IF Len(lists) = 0 THEN <<>> ELSE lists[1] \o Flatten(Tail(lists))

\* headers: what is written once at the beginning of each file
headers_General ==
    <<"f", "o", "r", "m", "a", "t", " ", "v", "e", "r", "s", "i", "o", "n",
      ",", "n", "a", "m", "e", ",", "d", "o", "c", "u", "m", "e", "n", "t",
      " ", "v", "e", "r", "s", "i", "o", "n">>

headers_DataTypes ==
    <<"t", "y", "p", "e", " ", "n", "a", "m", "e", ",", "e", "n", "g", " ",
      "t", "y", "p", "e", ",", "r", "a", "w", " ", "t", "y", "p", "e", ",",
      "e", "n", "c", "o", "d", "i", "n", "g", ",", "e", "n", "g", " ", "u",
      "n", "i", "t", ",", "c", "a", "l", "i", "b", "r", "a", "t", "i", "o",
      "n", ",", "d", "e", "s", "c", "r", "i", "p", "t", "i", "o", "n">>

headers_Containers_columns ==
    <<"c", "o", "n", "t", "a", "i", "n", "e", "r", " ", "n", "a", "m", "e",
      ",", "p", "a", "r", "e", "n", "t", ",", "c", "o", "n", "d", "i", "t",
      "i", "o", "n", ",", "f", "l", "a", "g", "s", ",", "e", "n", "t", "r",
      "y", ",", "p", "o", "s", "i", "t", "i", "o", "n", ",", "s", "i", "z",
      "e", " ", "i", "n", " ", "b", "i", "t", "s", ",", "e", "x", "p", "e",
      "c", "t", "e", "d", " ", "i", "n", "t", "e", "r", "v", "a", "l", ",",
      "d", "e", "s", "c", "r", "i", "p", "t", "i", "o", "n", "\n">>

\* the abstract packet: its own row, then the packet type and the packet id
headers_Containers ==
    headers_Containers_columns
    \o <<"P", "K", "T", ",", ",", ",", ",", ",", ",", ",", "\n">>
    \o <<",", ",", ",", ",", "P", "a", "c", "k", "e", "t", "T", "y", "p", "e", ",", "0", ",", ",", "\n">>
    \o <<",", ",", ",", ",", "P", "a", "c", "k", "e", "t", "I", "D", ",", "0", ",", ",", "\n">>

headers_Parameters_columns ==
    <<"p", "a", "r", "a", "m", "e", "t", "e", "r", " ", "n", "a", "m", "e",
      ",", "d", "a", "t", "a", " ", "t", "y", "p", "e", ",", "d", "e", "s",
      "c", "r", "i", "p", "t", "i", "o", "n", ",", "n", "a", "m", "e", "s",
      "p", "a", "c", "e", ":", "M", "D", "B", ":", "O", "P", "S", " ", "N",
      "a", "m", "e", "\n">>

headers_Parameters ==
    headers_Parameters_columns
    \o <<"P", "a", "c", "k", "e", "t", "T", "y", "p", "e", ",">> \o PACKETTYPE_TYPE \o <<",", ",", "\n">>
    \o <<"P", "a", "c", "k", "e", "t", "I", "D", ",">> \o PACKETID_TYPE \o <<",", ",">>

headers_Calibration ==
    <<"c", "a", "l", "i", "b", "r", "a", "t", "o", "r", " ", "n", "a", "m",
      "e", ",", "t", "y", "p", "e", ",", "c", "a", "l", "i", "b", "1", ",",
      "c", "a", "l", "i", "b", "2">>

headers_Commands ==
    <<"c", "o", "m", "m", "a", "n", "d", " ", "n", "a", "m", "e", ",", "p",
      "a", "r", "e", "n", "t", ",", "a", "r", "g", "u", "m", "e", "n", "t",
      " ", "a", "s", "s", "i", "g", "n", "m", "e", "n", "t", ",", "f", "l",
      "a", "g", "s", ",", "a", "r", "g", "u", "m", "e", "n", "t", " ", "n",
      "a", "m", "e", ",", "p", "o", "s", "i", "t", "i", "o", "n", ",", "d",
      "a", "t", "a", " ", "t", "y", "p", "e", ",", "d", "e", "f", "a", "u",
      "l", "t", " ", "v", "a", "l", "u", "e", ",", "r", "a", "n", "g", "e",
      " ", "l", "o", "w", ",", "r", "a", "n", "g", "e", " ", "h", "i", "g",
      "h", ",", "d", "e", "s", "c", "r", "i", "p", "t", "i", "o", "n">>

\* templates: the lines written for each object
templates_General ==
    << Lit(<<"7", ".", "1", ",">>), Arg("name"), Lit(<<",">>), Arg("version") >>

templates_DataTypes_type ==
    << Arg("name"), Lit(<<",">>), Arg("engType"), Lit(<<",">>), Arg("rawType"),
       Lit(<<",">>), Arg("encoding"), Lit(<<",", ",">>), Arg("calibration"),
       Lit(<<",">>) >>

\* int(TYPES_MAP[PACKETTYPE_TYPE][2]) + int(TYPES_MAP[PACKETID_TYPE][2])
PacketHeaderBits ==
    ParseInt(ExactInfo(PACKETTYPE_TYPE)[3]) + ParseInt(ExactInfo(PACKETID_TYPE)[3])

templates_Containers_packet ==
    << Arg("packetName"), Lit(<<",">>),
       Lit(<<"P", "K", "T", ":">> \o IntToStr(PacketHeaderBits)),
       Lit(<<",", "&", "(", "P", "a", "c", "k", "e", "t", "T", "y", "p", "e", "=", "=">>
           \o IntToStr(PACKETTYPE_TLM)),
       Lit(<<";", "P", "a", "c", "k", "e", "t", "I", "D", "=", "=">>),
       Arg("packetID"), Lit(<<")", ",", ",", ",", ",", ",">>), Arg("freq") >>

templates_Containers_param ==
    << Lit(<<",", ",", ",", ",">>), Arg("name"), Lit(<<",", "0", ",", ",", ",">>) >>

templates_Parameters_param ==
    << Arg("name"), Lit(<<",">>), Arg("type"), Lit(<<",", ",">>) >>

templates_Calibration_start ==
    << Arg("name"), Lit(<<",">>), Arg("kind"), Lit(<<",">>), Arg("calib1"),
       Lit(<<",">>), Arg("calib2") >>

templates_Calibration_val ==
    << Lit(<<",", ",">>), Arg("calib1"), Lit(<<",">>), Arg("calib2") >>

\* the abstract command and its opcode, two rows in one line
templates_Commands_abstractCommand ==
    <<"C", "O", "M", "M", "A", "N", "D", ",", ",", ",", "A", ",", ",", ",", ",", ",", ",", ",", "\n">>
    \o <<",", ",", ",", ",", "O", "p", "C", "o", "d", "e", ",", "0", ",">>
    \o OPCODE_TYPE \o <<",", ",", ",", ",">>

templates_Commands_command ==
    << Arg("name"),
       Lit(<<",", "C", "O", "M", "M", "A", "N", "D", ",", "O", "p", "C", "o", "d", "e", "=">>),
       Arg("opcode"), Lit(<<",", ",", ",", ",", ",", ",", ",", ",">>) >>

templates_Commands_arg ==
    << Lit(<<",", ",", ",", ",">>), Arg("name"), Lit(<<",", "0", ",">>), Arg("type"),
       Lit(<<",">>), Arg("default"), Lit(<<",">>), Arg("min"), Lit(<<",">>),
       Arg("max"), Lit(<<",">>) >>

\* the General file has one line after the header
generalLines ==
    << headers_General,
       Format(templates_General, [name |-> gen_name, version |-> gen_version]) >>

\* the line of a data type: the encoding, and nothing else, is put between
\* double quotes when it holds a comma; an absent calibration is rendered as ""
DataTypeLine(dt) ==
    Format(templates_DataTypes_type,
           [name |-> dt.name, engType |-> dt.engType, rawType |-> dt.rawType,
            encoding |-> IF Contains(dt.encoding, <<",">>)
                            THEN <<"\"">> \o dt.encoding \o <<"\"">>
                            ELSE dt.encoding,
            calibration |-> OptText(dt.calibration)])

dataTypesLines(dts) ==
    <<headers_DataTypes>> \o [i \in 1..Len(dts) |-> DataTypeLine(dts[i])]

\* a Parameters file that shows the parameter names as they are stored
ParameterSheetName_Whole(name) == name

\* the Parameters file does not show the array size: param.name.split('[')[0]
ParameterSheetName(name) == SplitFirst(name, "[")

\* the lines of one packet in the Containers file, with the empty line after it
PacketLines(packet) ==
    << Format(templates_Containers_packet,
              [packetName |-> packet.name, packetID |-> IntToStr(packet.id),
               freq |-> OptIntText(packet.freq)]) >>
    \o [k \in 1..Len(packet.params) |->
          Format(templates_Containers_param, [name |-> packet.params[k].name])]
    \o << <<>> >>

containersLines(tm) ==
    <<headers_Containers>> \o Flatten([i \in 1..Len(tm) |-> PacketLines(tm[i])])

\* the lines of one packet in the Parameters file
PacketParameterLines(packet) ==
    [k \in 1..Len(packet.params) |->
       Format(templates_Parameters_param,
              [name |-> ParameterSheetName(packet.params[k].name),
               type |-> packet.params[k].typeName])]

parametersLines(tm) ==
    <<headers_Parameters>>
    \o Flatten([i \in 1..Len(tm) |-> PacketParameterLines(tm[i])])

\* calibs1[0] or calibs2[0] of an empty list: IndexError
IndexError == [kind |-> "IndexError", category |-> "", detail |-> <<>>]

RaisesIndexError(cal) ==
    \E i \in 1..Len(cal) : Len(cal[i].calibs1) = 0 \/ Len(cal[i].calibs2) = 0

\* len(list(zip(calibs1, calibs2)))
ZipLen(calib) ==
    IF Len(calib.calibs1) <= Len(calib.calibs2)
    THEN Len(calib.calibs1) ELSE Len(calib.calibs2)

\* the lines of one calibration whose lists are not empty: the first pair with
\* the name and the kind, the other pairs of the zip, and the empty line
CalibLines(calib) ==
    << Format(templates_Calibration_start,
              [name |-> calib.name, kind |-> calib.kind,
               calib1 |-> IntToStr(calib.calibs1[1]), calib2 |-> calib.calibs2[1]]) >>
    \o [i \in 1..(ZipLen(calib) - 1) |->
          Format(templates_Calibration_val,
                 [calib1 |-> IntToStr(calib.calibs1[i + 1]),
                  calib2 |-> calib.calibs2[i + 1]])]
    \o << <<>> >>

calibrationLines(cal) ==
    <<headers_Calibration>> \o Flatten([i \in 1..Len(cal) |-> CalibLines(cal[i])])

\* the lines of one command, with the empty line after it
CommandLines(command) ==
    << Format(templates_Commands_command,
              [name |-> command.name, opcode |-> command.opcode]) >>
    \o [k \in 1..Len(command.params) |->
          LET arg == command.params[k]
          IN  Format(templates_Commands_arg,
                     [name |-> arg.name, type |-> arg.typeName,
                      default |-> OptText(arg.default), min |-> OptText(arg.min),
                      max |-> OptText(arg.max)])]
    \o << <<>> >>

commandsLines(cmd) ==
    <<headers_Commands, templates_Commands_abstractCommand, <<>> >>
    \o Flatten([i \in 1..Len(cmd) |-> CommandLines(cmd[i])])

\* sheetsLines_map: the sheet names and their lines, in insertion order
sheetsLines_map(tm, cmd, dts, cal) ==
    << <<<<"G", "e", "n", "e", "r", "a", "l">>, generalLines>>,
       <<<<"D", "a", "t", "a", "T", "y", "p", "e", "s">>,
         dataTypesLines(dts)>>,
       <<<<"C", "o", "n", "t", "a", "i", "n", "e", "r", "s">>,
         containersLines(tm)>>,
       <<<<"P", "a", "r", "a", "m", "e", "t", "e", "r", "s">>,
         parametersLines(tm)>>,
       <<<<"C", "a", "l", "i", "b", "r", "a", "t", "i", "o", "n">>,
         calibrationLines(cal)>>,
       <<<<"C", "o", "m", "m", "a", "n", "d", "s">>,
         commandsLines(cmd)>> >>

\* f"{self.directory}/{self.name}_{sheet_name}.csv"
FileName(sheet_name) ==
    gen_directory \o <<"/">> \o gen_name \o <<"_">> \o sheet_name
    \o <<".", "c", "s", "v">>

\* what file.write(line + '\n') for each line leaves in a file
RECURSIVE FileText(_)
FileText(lines) ==
    IF Len(lines) = 0 THEN <<>>
    ELSE lines[1] \o <<"\n">> \o FileText(Tail(lines))

\* the files opened with mode 'w' and written, in the order they are written
WrittenFiles(tm, cmd, dts, cal) ==
    LET sheets == sheetsLines_map(tm, cmd, dts, cal)
    IN  [i \in 1..Len(sheets) |-> <<FileName(sheets[i][1]), FileText(sheets[i][2])>>]

\* a generateCSVs that writes the General file before it validates
generateCSVs_WriteFirst ==
    /\ lastCall' = Call("generateCSVs", <<>>)
    /\ LET err == ValidateError(TMpackets, commands, dataTypes, calibrations)
           clean == Sanitized(TMpackets, commands, dataTypes, calibrations)
           sheets == sheetsLines_map(TMpackets, commands, dataTypes, <<>>)
       IN  \/ /\ err # NoError
              /\ raised' = err
              /\ files' = << <<FileName(sheets[1][1]), FileText(sheets[1][2])>> >>
              /\ UNCHANGED <<TMpackets, commands, dataTypes, calibrations>>
           \/ /\ err = NoError
              /\ raised' = IF RaisesIndexError(clean[4]) THEN IndexError ELSE NoError
              /\ TMpackets' = clean[1]
              /\ commands' = clean[2]
              /\ dataTypes' = clean[3]
              /\ calibrations' = clean[4]
              /\ files' = IF RaisesIndexError(clean[4])
                             THEN << <<FileName(sheets[1][1]), FileText(sheets[1][2])>> >>
                             ELSE WrittenFiles(clean[1], clean[2], clean[3], clean[4])

\* generateCSVs(): validate() first; then every line of every sheet is built
\* (IndexError on a calibration without values); then the six files are
\* written, each replacing the file of that name
generateCSVs ==
    /\ lastCall' = Call("generateCSVs", <<>>)
    /\ LET err == ValidateError(TMpackets, commands, dataTypes, calibrations)
           clean == Sanitized(TMpackets, commands, dataTypes, calibrations)
       IN  \/ /\ err # NoError
              /\ raised' = err
              /\ UNCHANGED <<TMpackets, commands, dataTypes, calibrations, files>>
           \/ /\ err = NoError
              /\ RaisesIndexError(clean[4])
              /\ raised' = IndexError
              /\ TMpackets' = clean[1]
              /\ commands' = clean[2]
              /\ dataTypes' = clean[3]
              /\ calibrations' = clean[4]
              /\ UNCHANGED files
           \/ /\ err = NoError
              /\ ~RaisesIndexError(clean[4])
              /\ raised' = NoError
              /\ TMpackets' = clean[1]
              /\ commands' = clean[2]
              /\ dataTypes' = clean[3]
              /\ calibrations' = clean[4]
              /\ files' = WrittenFiles(clean[1], clean[2], clean[3], clean[4])

(***************************************************************************)
(* The callers' inputs.                                                    *)
(***************************************************************************)
n_dot == <<"a", ".", "b">>
n_us == <<"a", "_", "b">>

\* two names that differ before sanitization and not after it
Names == {n_dot, n_us}

\* "U8[2]": a declared type with a length suffix; "U8[": a bracket without its end
s_U8_2 == s_U8 \o <<"[", "2", "]">>
s_U8_open == s_U8 \o <<"[">>
s_U128 == <<"U", "1", "2", "8">>

\* type names given to parameters
ParamTypes == {s_U8, n_dot, s_U8_2, s_U8_open}

\* element type names given to array types
ElementTypes == {s_U8, n_dot}

\* member dicts given to aggregate types
MemberDicts == { << <<n_dot, n_dot>> >>, << <<n_us, s_U8>>, <<n_dot, s_U8>> >> }

\* tokens given to addPrimitiveType: a pre-registered one and two unknown ones
PrimitiveTokens == {s_U8, s_U128, s_string}

LabelList(items) == [isMap |-> FALSE, items |-> items]

LabelMap(items) == [isMap |-> TRUE, items |-> items]

\* enumeration values given to addEnumType
EnumValues == { LabelList(<<n_dot, n_us>>) }

\* representation types given to addEnumType: a known one and an unknown one
EnumTypes == {s_U8, s_U128}

\* entries given to addTMTC, and those of the same name and other contents
Entries ==
    { TMPacket(n_dot, 1, None), TMPacket(n_dot, 2, Some(5)), TMPacket(n_us, 1, None),
      Command(n_dot, <<"1">>), Command(n_dot, <<"2">>), Command(n_us, <<"1">>),
      TMTCEntry(n_dot) }

\* name, type, default, min and max of a command argument: every name and type
\* without a range, and one argument with a default and a range
CommandArgs ==
    { <<n, t, None, None, None>> : n \in Names, t \in ParamTypes }
    \cup { <<n_dot, s_U8, Some(<<"0", ".", "5">>), Some(<<"0">>), Some(<<"1">>)>> }

ArrayLengths == {2}

(***************************************************************************)
(* The generator driven by its callers.                                    *)
(***************************************************************************)
\* the bound on what the callers add
CanGrow == ModelSize < MaxModelSize

Next ==
    \/ \E t \in PrimitiveTokens : CanGrow /\ addPrimitiveType(t)
    \/ \E n \in Names, t \in EnumTypes, v \in EnumValues : CanGrow /\ addEnumType(n, t, v)
    \/ \E n \in Names, t \in ElementTypes : CanGrow /\ addArrayType(n, t)
    \/ \E n \in Names, m \in MemberDicts : CanGrow /\ addAggregateType(n, m)
    \/ \E e \in Entries : CanGrow /\ addTMTC(e)
    \/ \E i \in 1..Len(TMpackets), n \in Names, t \in ParamTypes :
           CanGrow /\ packetAddParam(i, n, t, None, None, None)
    \/ \E i \in 1..Len(TMpackets), n \in Names, t \in ElementTypes, l \in ArrayLengths :
           CanGrow /\ packetAddArray(i, n, t, l)
    \/ \E i \in 1..Len(commands), a \in CommandArgs :
           CanGrow /\ commandAddParam(i, a[1], a[2], a[3], a[4], a[5])
    \/ validate
    \/ reset

Spec == Init /\ [][Next]_vars

(***************************************************************************)
(* The type registry driven with many tokens.                              *)
(***************************************************************************)
\* the digits the string<n> tokens are written with
TokenDigits == {"0", "4", "9"}

\* the digit strings of length 1..n over TokenDigits
RECURSIVE DigitStrings(_)
DigitStrings(n) ==
    IF n = 0 THEN {}
    ELSE LET shorter == DigitStrings(n - 1)
         IN  {<<d>> : d \in TokenDigits} \cup shorter
             \cup {Append(ds, d) : ds \in shorter, d \in TokenDigits}

\* "string<n>" for every digit string
StringTokens == {s_string \o ds : ds \in DigitStrings(MaxDigits)}

\* tokens near the keys of the table: every key itself, a key before a final
\* newline, "string" without a length, and tokens no rule matches
OtherTokens ==
    ExactKeys
    \cup { s_U8 \o <<"\n">>, s_string \o <<"4", "\n">>, s_string, s_U128,
           s_string \o <<"4", "x">>, <<"x">> \o s_string \o <<"4">>,
           <<"S">> \o Tail(s_string) \o <<"4">>, <<"u", "8">>, <<>>,
           s_F64 \o <<"\n">>, s_string \o <<"\n">> }

TypeTokens == StringTokens \cup OtherTokens

\* representation types given to addEnumType
RepTypes == {s_U8, s_I16, s_F32, s_string \o <<"4">>, s_U128, s_string}

l_A == <<"A">>
l_B == <<"B">>
l_C == <<"C">>

\* enumeration values in both shapes
RegistryEnumValues ==
    { LabelList(<<l_A, l_B, l_C>>), LabelList(<<l_B, l_A>>), LabelList(<<>>),
      LabelMap(<< <<l_A, 5>>, <<l_B, 7>> >>), LabelMap(<< <<l_B, 7>>, <<l_A, 5>> >>),
      LabelMap(<< <<l_C, 2>>, <<l_A, 2>>, <<l_B, 0>> >>) }

EnumNames == {<<"E">>, s_U8}

CanAddType == Len(dataTypes) - Len(ResetDataTypes) < MaxTypeCalls

NextTypes ==
    \/ \E t \in TypeTokens : CanAddType /\ addPrimitiveType(t)
    \/ \E n \in EnumNames, t \in RepTypes, v \in RegistryEnumValues :
           CanAddType /\ addEnumType(n, t, v)
    \/ reset

SpecTypes == Init /\ [][NextTypes]_vars

(***************************************************************************)
(* The generator driven up to the files it writes.                         *)
(***************************************************************************)
\* a name with a comma in it and a name with a bracket in it
n_comma == <<"p", ",", "q">>
n_bracket == <<"n", "[", "o">>

\* name, representation type and values of the enumerations: without labels,
\* from a label list, from a label dict, and over an unknown type
SheetEnums ==
    { <<n_dot, s_U8, LabelList(<<>>)>>, <<n_dot, s_U8, LabelList(<<n_comma, l_A>>)>>,
      <<n_dot, s_U8, LabelMap(<< <<l_B, 7>>, <<l_A, 5>> >>)>>,
      <<n_dot, s_U128, LabelList(<<>>)>> }

SheetEntries ==
    { TMPacket(n_dot, 3, None), TMPacket(n_comma, 4, Some(5)),
      Command(n_comma, <<"1">>), TMTCEntry(n_dot) }

\* name and type of the parameters of a packet
SheetParams == { <<n_dot, s_U8>>, <<n_bracket, s_U8>>, <<n_dot, n_dot>> }

\* name, element type and length of the array parameters of a packet
SheetArrays == { <<n_dot, s_U8, 10>>, <<n_bracket, n_dot, 2>> }

\* name, type, default, min and max of the arguments of a command
SheetArgs ==
    { <<n_dot, s_U8, None, None, None>>,
      <<n_comma, s_U8, Some(<<"0", ".", "5">>), Some(<<"0">>), Some(<<"1", ",", "5">>)>> }

NextCSV ==
    \/ \E e \in SheetEnums : CanGrow /\ addEnumType(e[1], e[2], e[3])
    \/ \E e \in SheetEntries : CanGrow /\ addTMTC(e)
    \/ \E i \in 1..Len(TMpackets), p \in SheetParams :
           CanGrow /\ packetAddParam(i, p[1], p[2], None, None, None)
    \/ \E i \in 1..Len(TMpackets), a \in SheetArrays :
           CanGrow /\ packetAddArray(i, a[1], a[2], a[3])
    \/ \E i \in 1..Len(commands), a \in SheetArgs :
           CanGrow /\ commandAddParam(i, a[1], a[2], a[3], a[4], a[5])
    \/ validate
    \/ generateCSVs

SpecCSV == Init /\ [][NextCSV]_vars

(***************************************************************************)
(* Properties.  The vocabulary they are stated in.                         *)
(***************************************************************************)
Validated == lastCall.op = "validate"

ValidatedOk == lastCall.op = "validate" /\ raised = NoError

\* every type reference of a model: the type name of every parameter of every TM
\* packet and command, the element type of every array type, the member types
\* of every aggregate type
EntryTypeRefs(entries) ==
    UNION { {entries[i].params[j].typeName : j \in 1..Len(entries[i].params)} :
            i \in 1..Len(entries) }

DataTypeRefs(dts) ==
    UNION { IF dts[i].cls = "ArrayDataType" THEN {dts[i].elType}
            ELSE IF dts[i].cls = "AggregateDataType"
            THEN {dts[i].members[j][2] : j \in 1..Len(dts[i].members)}
            ELSE {} : i \in 1..Len(dts) }

TypeReferences(tm, cmd, dts) ==
    EntryTypeRefs(tm) \cup EntryTypeRefs(cmd) \cup DataTypeRefs(dts)

TypeNames(dts) == {dts[i].name : i \in 1..Len(dts)}

\* a name without its trailing "[len]" suffix, when it ends with one
WithoutLenSuffix(name) ==
    IF Len(name) > 0 /\ name[Len(name)] = "]" /\ RFind(name, "[") # 0
    THEN SubSeq(name, 1, RFind(name, "[") - 1)
    ELSE name

\* a name cut at its last "[", whether or not a "]" ends it
CutAtLastBracket(name) ==
    IF RFind(name, "[") # 0 THEN SubSeq(name, 1, RFind(name, "[") - 1) ELSE name

\* two items of a list share a name
SharedName(items) ==
    \E i, j \in 1..Len(items) : i # j /\ items[i].name = items[j].name

\* two parameters of one entry of a list share a name
SharedParamName(entries) == \E i \in 1..Len(entries) : SharedName(entries[i].params)

\* two entries of one category share a name
HasDuplicate(tm, cmd, dts, cal) ==
    \/ SharedName(dts) \/ SharedName(tm) \/ SharedName(cmd) \/ SharedName(cal)
    \/ SharedParamName(tm) \/ SharedParamName(cmd)

\* some type reference is not declared once cut at its last "["
SomeUndeclared(tm, cmd, dts) ==
    \E r \in TypeReferences(tm, cmd, dts) : CutAtLastBracket(r) \notin TypeNames(dts)

C3_UniqueNamesAfterValidate ==
    ValidatedOk => ~HasDuplicate(TMpackets, commands, dataTypes, calibrations)

(***************************************************************************)
(* C4.  After a successful validate() no string field reachable from the   *)
(* TM packets, commands, data types and calibrations contains ".".         *)
(***************************************************************************)
HasDot(str) == \E i \in 1..Len(str) : str[i] = "."

OptHasDot(opt) == opt # None /\ HasDot(opt[1])

ParamHasDot(p) ==
    \/ HasDot(p.name) \/ HasDot(p.typeName)
    \/ OptHasDot(p.default) \/ OptHasDot(p.min) \/ OptHasDot(p.max)

EntryHasDot(e) ==
    \/ HasDot(e.name)
    \/ e.cls = "Command" /\ HasDot(e.opcode)
    \/ \E j \in 1..Len(e.params) : ParamHasDot(e.params[j])

\* the fields every data type has, and the element type of an array type
DataTypeFieldHasDot(dt) ==
    \/ HasDot(dt.name) \/ HasDot(dt.engType) \/ HasDot(dt.rawType)
    \/ HasDot(dt.encoding) \/ OptHasDot(dt.calibration)
    \/ dt.cls = "ArrayDataType" /\ HasDot(dt.elType)

\* the member names and member type names of an aggregate type
MemberHasDot(dt) ==
    /\ dt.cls = "AggregateDataType"
    /\ \E j \in 1..Len(dt.members) : HasDot(dt.members[j][1]) \/ HasDot(dt.members[j][2])

CalibHasDot(c) ==
    \/ HasDot(c.name) \/ HasDot(c.kind)
    \/ \E j \in 1..Len(c.calibs2) : HasDot(c.calibs2[j])

\* C4: after validate() returned without error no string field contains ".",
\* aggregate member names and member type names included
C4_NoDotAfterValidate ==
    ValidatedOk =>
        /\ \A i \in 1..Len(TMpackets) : ~EntryHasDot(TMpackets[i])
        /\ \A i \in 1..Len(commands) : ~EntryHasDot(commands[i])
        /\ \A i \in 1..Len(dataTypes) :
               ~DataTypeFieldHasDot(dataTypes[i]) /\ ~MemberHasDot(dataTypes[i])
        /\ \A i \in 1..Len(calibrations) : ~CalibHasDot(calibrations[i])

(***************************************************************************)
(* C5.  Sanitization is idempotent.                                        *)
(***************************************************************************)
\* C5: on every model the callers can build, sanitizing the sanitized model
\* changes no field of any TM packet, command, data type or calibration
C5_SanitizeIdempotent ==
    LET once == Sanitized(TMpackets, commands, dataTypes, calibrations)
    IN  Sanitized(once[1], once[2], once[3], once[4]) = once

\* a model validate() accepts in which sanitization changes a TM packet, a
\* command, a data type and a calibration
C5_Witness ==
    LET once == Sanitized(TMpackets, commands, dataTypes, calibrations)
    IN  /\ ValidateError(TMpackets, commands, dataTypes, calibrations) = NoError
        /\ once[3] # dataTypes
        /\ once[4] # calibrations
        /\ once[1] # TMpackets \/ once[2] # commands

(***************************************************************************)
(* C6.  validate() checks in a fixed order and raises the error of the     *)
(* first failing step: parameter type references (TM packets, then         *)
(* commands), array element and aggregate member references, duplicate     *)
(* names among data types, TM packets, commands, calibrations, duplicate   *)
(* parameter names in each TM packet then each command, sanitization.      *)
(***************************************************************************)
\* the <<entry, parameter, type>> names of the parameters with an undeclared type
UndeclaredParamsOf(entries, dts) ==
    UNION { { <<entries[i].name, entries[i].params[j].name, entries[i].params[j].typeName>> :
              j \in {k \in 1..Len(entries[i].params) :
                       CutAtLastBracket(entries[i].params[k].typeName) \notin TypeNames(dts)} } :
            i \in 1..Len(entries) }

\* what the first failing step raises: its exception and the check it names
ExpectedRaise(tm, cmd, dts, cal) ==
    IF UndeclaredParamsOf(tm, dts) \cup UndeclaredParamsOf(cmd, dts) # {}
        THEN <<"UndeclaredTypeError", {"TMTC object parameter"}>>
    ELSE IF \E r \in DataTypeRefs(dts) : CutAtLastBracket(r) \notin TypeNames(dts)
        THEN <<"UndeclaredTypeError", {"Array member type", "Member type"}>>
    ELSE IF SharedName(dts) THEN <<"NameConflictError", {"datatypes"}>>
    ELSE IF SharedName(tm) THEN <<"NameConflictError", {"TM packets"}>>
    ELSE IF SharedName(cmd) THEN <<"NameConflictError", {"commands"}>>
    ELSE IF SharedName(cal) THEN <<"NameConflictError", {"calibrations"}>>
    ELSE IF SharedParamName(tm) THEN <<"NameConflictError", {"parameters of TM packet"}>>
    ELSE IF SharedParamName(cmd) THEN <<"NameConflictError", {"parameters of command"}>>
    ELSE <<"none", {""}>>

IsStringN(t) ==
    /\ StartsWith(t, s_string)
    /\ Len(t) > Len(s_string)
    /\ \A i \in (Len(s_string) + 1)..Len(t) : IsDigit(t[i])

LastOf(seq) == seq[Len(seq)]

\* C7: addPrimitiveType("string<n>") registers a type named after the token with
\* engineering and raw type "string" and encoding str(8 * n); addPrimitiveType
\* of an exact key registers the three fields of that key's own entry, the
\* literal key "string(\d+)" with its template "8*{}" untouched
C7_StringWidthIsEightTimesLength ==
    lastCall.op = "addPrimitiveType" =>
        LET t == lastCall.args[1]
            dt == LastOf(dataTypes)
        IN  /\ IsStringN(t) =>
                /\ raised = NoError
                /\ dt.name = t
                /\ dt.engType = s_string
                /\ dt.rawType = s_string
                /\ dt.encoding = IntToStr(8 * ParseInt(SubSeq(t, Len(s_string) + 1, Len(t))))
            /\ t \in ExactKeys =>
                /\ raised = NoError
                /\ dt.name = t
                /\ <<dt.engType, dt.rawType, dt.encoding>> = ExactInfo(t)
            /\ t = s_stringPattern => dt.encoding = s_mulTemplate

\* "string40" has been registered with width 320
C7_Witness ==
    /\ lastCall = Call("addPrimitiveType", <<s_string \o <<"4", "0">>>>)
    /\ LastOf(dataTypes).encoding = <<"3", "2", "0">>

(***************************************************************************)
(* C8.  A token that no exact key and no pattern rule matches raises       *)
(* UnknownNativeType and the add-call leaves the registries unchanged.     *)
(***************************************************************************)
NoRuleMatches(t) ==
    /\ t \notin ExactKeys
    /\ \A i \in 1..Len(TYPES_MAP) : ~RegexMatch(TYPES_MAP[i].key, t).matched

\* C8: addPrimitiveType with such a token, and addEnumType with such a
\* representation type, raise UnknownNativeType and add no data type and no
\* calibration
C8_UnknownTokenLeavesRegistries ==
    [][(\/ lastCall'.op = "addPrimitiveType" /\ NoRuleMatches(lastCall'.args[1])
        \/ lastCall'.op = "addEnumType" /\ NoRuleMatches(lastCall'.args[2]))
       => /\ raised' = UnknownNativeTypeError
          /\ UNCHANGED model]_vars

\* addEnumType over "U128" has raised on a generator that holds user types
C8_Witness ==
    /\ lastCall.op = "addEnumType"
    /\ lastCall.args[2] = s_U128
    /\ raised = UnknownNativeTypeError
    /\ Len(dataTypes) > Len(ResetDataTypes)
    /\ Len(calibrations) > 0

(***************************************************************************)
(* C9.  After construction and after reset() the generator is in the       *)
(* primitive-only baseline.                                                *)
(***************************************************************************)
NonParametrizedPrimitives ==
    <<s_bool, s_U8, s_U16, s_U32, s_U64, s_I8, s_I16, s_I32, s_I64, s_F32, s_F64>>

\* C9: after __init__ and after reset() there is no TM packet, no command and no
\* calibration, and the data types are the eleven non-parametrized primitives,
\* each once, none of them a string type
C9_ResetIsPrimitiveBaseline ==
    lastCall.op \in {"__init__", "reset"} =>
        /\ TMpackets = <<>>
        /\ commands = <<>>
        /\ calibrations = <<>>
        /\ [i \in 1..Len(dataTypes) |-> dataTypes[i].name] = NonParametrizedPrimitives
        /\ \A i \in 1..Len(dataTypes) :
               /\ dataTypes[i].cls = "PrimitiveDataType"
               /\ ~Contains(dataTypes[i].name, s_string)

\* reset() has run
C9_Witness == lastCall.op = "reset" /\ Len(dataTypes) = Len(NonParametrizedPrimitives)

(***************************************************************************)
(* C10.  An enumeration calibration pairs raw values with labels in order. *)
(***************************************************************************)
\* C10: the calibration addEnumType registers from a label list of length N has
\* raw values 0..N-1 and the labels in order; from a label-to-raw mapping it has
\* the labels and their raw values in insertion order; both sequences have the
\* length of the input
C10_EnumCalibPairsInOrder ==
    (lastCall.op = "addEnumType" /\ raised = NoError) =>
        LET values == lastCall.args[3]
            calib == LastOf(calibrations)
            N == Len(values.items)
        IN  /\ calib.name = lastCall.args[1]
            /\ Len(calib.calibs1) = N
            /\ Len(calib.calibs2) = N
            /\ \A i \in 1..N :
                   IF values.isMap
                   THEN /\ calib.calibs2[i] = values.items[i][1]
                        /\ calib.calibs1[i] = values.items[i][2]
                   ELSE /\ calib.calibs2[i] = values.items[i]
                        /\ calib.calibs1[i] = i - 1

\* a calibration has been built from the mapping {"B": 7, "A": 5}
C10_Witness ==
    /\ lastCall.op = "addEnumType"
    /\ raised = NoError
    /\ lastCall.args[3] = LabelMap(<< <<l_B, 7>>, <<l_A, 5>> >>)
    /\ LastOf(calibrations).calibs1 = <<7, 5>>

(***************************************************************************)
(* The files read back: the vocabulary of the properties of generateCSVs() *)
(***************************************************************************)
GeneratedOk == lastCall.op = "generateCSVs" /\ raised = NoError

s_General == <<"G", "e", "n", "e", "r", "a", "l">>
s_DataTypes == <<"D", "a", "t", "a", "T", "y", "p", "e", "s">>
s_Containers == <<"C", "o", "n", "t", "a", "i", "n", "e", "r", "s">>
s_Parameters == <<"P", "a", "r", "a", "m", "e", "t", "e", "r", "s">>
s_Calibration == <<"C", "a", "l", "i", "b", "r", "a", "t", "i", "o", "n">>
s_Commands == <<"C", "o", "m", "m", "a", "n", "d", "s">>

SheetNames == {s_General, s_DataTypes, s_Containers, s_Parameters, s_Calibration, s_Commands}

\* the file of a sheet is among the written files fs
HasFile(fs, sheet_name) == \E i \in 1..Len(fs) : fs[i][1] = FileName(sheet_name)

\* its text
FileOf(fs, sheet_name) ==
    fs[CHOOSE i \in 1..Len(fs) : fs[i][1] = FileName(sheet_name)][2]

\* the first position from i on where text holds c, Len(text) + 1 when none
RECURSIVE NextAt(_, _, _)
NextAt(text, c, i) ==
    IF i > Len(text) \/ text[i] = c THEN i ELSE NextAt(text, c, i + 1)

\* the pieces of text between the occurrences of c, from position i on
RECURSIVE SplitFrom(_, _, _)
SplitFrom(text, c, i) ==
    LET e == NextAt(text, c, i)
    IN  IF e > Len(text) THEN <<SubSeq(text, i, Len(text))>>
        ELSE <<SubSeq(text, i, e - 1)>> \o SplitFrom(text, c, e + 1)

\* the rows of a text: what each newline ends
Rows(text) ==
    LET pieces == SplitFrom(text, "\n", 1)
    IN  SubSeq(pieces, 1, Len(pieces) - 1)

\* the comma-separated fields of a row
Fields(row) == SplitFrom(row, ",", 1)

\* the row of an ordered list of fields
CsvRow(fields) == Join(<<",">>, fields)

\* the rows a header takes in its file
HeaderRows(header) == Len(Rows(header \o <<"\n">>))

\* where the rows of the i-th packet begin in the Containers file (its own row)
\* and in the Parameters file (the row before its first parameter)
PacketRow(tm, i) ==
    HeaderRows(headers_Containers) + CountParams(SubSeq(tm, 1, i - 1)) + 2 * (i - 1) + 1

ParametersBefore(tm, i) ==
    HeaderRows(headers_Parameters) + CountParams(SubSeq(tm, 1, i - 1))

\* a Containers row that only names an entry, and a Parameters row
ContainerEntryRow(name) ==
    CsvRow(<< <<>>, <<>>, <<>>, <<>>, name, <<"0">>, <<>>, <<>>, <<>> >>)

ParameterRow(name, typeName) == CsvRow(<<name, typeName, <<>>, <<>> >>)

Blank == << <<>> >>

s_zero == <<"0">>

\* the fields of the rows of a header
HeaderFields(header) ==
    LET rows == Rows(header \o <<"\n">>)
    IN  [i \in 1..Len(rows) |-> Fields(rows[i])]

DataTypeFields(dt) ==
    <<dt.name, dt.engType, dt.rawType, dt.encoding, <<>>, OptText(dt.calibration), <<>> >>

\* the parent and the match condition of the packet with the given id
PacketParent == <<"P", "K", "T", ":">> \o IntToStr(PacketHeaderBits)

PacketCondition(id) ==
    <<"&", "(", "P", "a", "c", "k", "e", "t", "T", "y", "p", "e", "=", "=">>
    \o IntToStr(PACKETTYPE_TLM)
    \o <<";", "P", "a", "c", "k", "e", "t", "I", "D", "=", "=">> \o IntToStr(id)
    \o <<")">>

\* the eight fields of the row of a packet
PacketFields(packet) ==
    <<packet.name, PacketParent, PacketCondition(packet.id), <<>>, <<>>, <<>>, <<>>,
      OptIntText(packet.freq)>>

EntryFields(param) ==
    << <<>>, <<>>, <<>>, <<>>, param.name, s_zero, <<>>, <<>>, <<>> >>

ParameterFields(param) ==
    <<SplitFirst(param.name, "["), param.typeName, <<>>, <<>> >>

\* the i-th pair of a calibration: with the name and the kind when it is the first
CalibFields(calib, i) ==
    << IF i = 1 THEN calib.name ELSE <<>>, IF i = 1 THEN calib.kind ELSE <<>>,
       IntToStr(calib.calibs1[i]), calib.calibs2[i] >>

CommandFields(command) ==
    << command.name, <<"C", "O", "M", "M", "A", "N", "D">>,
       <<"O", "p", "C", "o", "d", "e", "=">> \o command.opcode,
       <<>>, <<>>, <<>>, <<>>, <<>>, <<>>, <<>>, <<>> >>

ArgFields(arg) ==
    << <<>>, <<>>, <<>>, <<>>, arg.name, s_zero, arg.typeName, OptText(arg.default),
       OptText(arg.min), OptText(arg.max), <<>> >>

\* the data rows of each table, as field lists; a blank row is one empty field
DataTypeRows(dts) == [i \in 1..Len(dts) |-> DataTypeFields(dts[i])]

ContainerRows(tm) ==
    Flatten([i \in 1..Len(tm) |->
               <<PacketFields(tm[i])>>
               \o [k \in 1..Len(tm[i].params) |-> EntryFields(tm[i].params[k])]
               \o <<Blank>>])

ParameterRows(tm) ==
    Flatten([i \in 1..Len(tm) |->
               [k \in 1..Len(tm[i].params) |-> ParameterFields(tm[i].params[k])]])

\* one block per calibration: a row per pair, then a blank row
CalibrationRows(cal) ==
    Flatten([i \in 1..Len(cal) |->
               [k \in 1..Len(cal[i].calibs1) |-> CalibFields(cal[i], k)] \o <<Blank>>])

CommandRows(cmd) ==
    Flatten([i \in 1..Len(cmd) |->
               <<CommandFields(cmd[i])>>
               \o [k \in 1..Len(cmd[i].params) |-> ArgFields(cmd[i].params[k])]
               \o <<Blank>>])

\* the rows of the table of a sheet, its header rows first
TableRows(sheet_name, tm, cmd, dts, cal) ==
    IF sheet_name = s_General
    THEN HeaderFields(headers_General)
         \o << <<<<"7", ".", "1">>, gen_name, gen_version>> >>
    ELSE IF sheet_name = s_DataTypes
    THEN HeaderFields(headers_DataTypes) \o DataTypeRows(dts)
    ELSE IF sheet_name = s_Containers
    THEN HeaderFields(headers_Containers) \o ContainerRows(tm)
    ELSE IF sheet_name = s_Parameters
    THEN HeaderFields(headers_Parameters) \o ParameterRows(tm)
    ELSE IF sheet_name = s_Calibration
    THEN HeaderFields(headers_Calibration) \o CalibrationRows(cal)
    ELSE HeaderFields(headers_Commands \o <<"\n">> \o templates_Commands_abstractCommand)
         \o <<Blank>> \o CommandRows(cmd)

\* a field as a CSV writer writes it: between double quotes when it holds a comma
Quoted(field) ==
    IF Contains(field, <<",">>) THEN <<"\"">> \o field \o <<"\"">> ELSE field

QuotedRow(fields) == CsvRow([i \in 1..Len(fields) |-> Quoted(fields[i])])

\* some field of some row holds a comma
SomeComma(rows) ==
    \E i \in 1..Len(rows) : \E k \in 1..Len(rows[i]) : Contains(rows[i][k], <<",">>)

(***************************************************************************)
(* C12.  Fields that hold a comma are written between double quotes.       *)
(***************************************************************************)
\* C12: when generateCSVs() succeeds, every row of each of the six files is the
\* comma-joined list of its fields, each field that holds a comma written
\* between double quotes
C12_CommaFieldsQuoted ==
    GeneratedOk =>
        \A sheet_name \in SheetNames :
            LET table == TableRows(sheet_name, TMpackets, commands, dataTypes,
                                   calibrations)
            IN  Rows(FileOf(files, sheet_name))
                    = [i \in 1..Len(table) |-> QuotedRow(table[i])]

(***************************************************************************)
(* C13.  Every row of a table has as many fields as its header row.        *)
(***************************************************************************)
\* C13: when generateCSVs() succeeds on a model whose field values hold no
\* comma, every non-blank row of each of the six files has as many
\* comma-separated fields as the first row of that file
C13_RowsHaveHeaderArity ==
    (GeneratedOk /\ \A sheet_name \in SheetNames :
                        ~SomeComma(TableRows(sheet_name, TMpackets, commands,
                                             dataTypes, calibrations))) =>
        \A sheet_name \in SheetNames :
            LET rows == Rows(FileOf(files, sheet_name))
            IN  \A i \in 1..Len(rows) :
                    rows[i] # <<>> => Len(Fields(rows[i])) = Len(Fields(rows[1]))

(***************************************************************************)
(* C14.  The Calibration file holds one block of rows per calibration.     *)
(***************************************************************************)
\* C14: when generateCSVs() is called on a model that validates, the rows of the
\* Calibration file after its header are, for each calibration in insertion
\* order, one row per (raw, label) pair in pair order, the first with the name
\* and the kind and the others with both blank, and then one blank row
C14_CalibrationBlocks ==
    (lastCall.op = "generateCSVs"
        /\ raised.kind \notin {"UndeclaredTypeError", "NameConflictError"}) =>
        /\ HasFile(files, s_Calibration)
        /\ LET table == TableRows(s_Calibration, TMpackets, commands, dataTypes,
                                  calibrations)
           IN  Rows(FileOf(files, s_Calibration))
                   = [i \in 1..Len(table) |-> CsvRow(table[i])]

(***************************************************************************)
(* C15.  Calibration references belong to enumerated types and name a      *)
(* calibration of the registry.                                            *)
(***************************************************************************)
\* C15: in every state, a data type with a calibration reference has the
\* engineering type "enumerated", refers to a calibration of its own name, and
\* the registry holds a calibration of that name; a data type that is not an
\* enumerated one has no calibration reference
C15_CalibrationRefIsOwnName ==
    \A i \in 1..Len(dataTypes) :
        LET dt == dataTypes[i]
        IN  /\ dt.calibration # None =>
                  /\ dt.engType = s_enumerated
                  /\ dt.calibration = Some(dt.name)
                  /\ \E j \in 1..Len(calibrations) : calibrations[j].name = dt.name
            /\ dt.cls # "EnumDataType" => dt.calibration = None

\* an enumerated type added as "a.b" has been validated and renamed, with its
\* calibration reference and its calibration, next to a type of another variant
C15_Witness ==
    /\ ValidatedOk
    /\ \E i \in 1..Len(dataTypes) :
           /\ dataTypes[i].cls = "EnumDataType"
           /\ dataTypes[i].calibration = Some(n_us)
    /\ \E j \in 1..Len(calibrations) : calibrations[j].name = n_us
    /\ \E i \in 1..Len(dataTypes) : dataTypes[i].cls = "ArrayDataType"

(***************************************************************************)
(* C16.  A failing validation changes nothing and writes nothing.          *)
(***************************************************************************)
\* C16: a validate() or a generateCSVs() that raises UndeclaredType or
\* NameConflict leaves the TM packets, the commands, the data types and the
\* calibrations as they were, and the files as they were
C16_FailedValidationHasNoEffect ==
    [][(lastCall'.op \in {"validate", "generateCSVs"}
           /\ raised'.kind \in {"UndeclaredTypeError", "NameConflictError"}) =>
          /\ TMpackets' = TMpackets
          /\ commands' = commands
          /\ dataTypes' = dataTypes
          /\ calibrations' = calibrations
          /\ files' = files]_vars

\* generateCSVs() has failed on an undeclared type: a name still holds its "."
\* and there is no file
C16_Witness ==
    /\ lastCall.op = "generateCSVs"
    /\ raised.kind = "UndeclaredTypeError"
    /\ \E i \in 1..Len(TMpackets) : HasDot(TMpackets[i].name)
    /\ files = <<>>

====
